---- MODULE Spec2Model ----
(***************************************************************************)
(* Zeek log data dictionary: the shell state of App (active set, selected  *)
(* node, category filter, search query) and the GraphVisualization         *)
(* component (relationship resolver, force simulation life cycle, drag     *)
(* handlers, overlays).                                                    *)
(*                                                                         *)
(* Strings that the code inspects with includes()/toLowerCase() are        *)
(* modelled as sequences of one-character strings; ids, categories and     *)
(* pivot tags, which the code only compares with ===, are TLA+ strings.    *)
(***************************************************************************)
EXTENDS Integers, Sequences, FiniteSets, TLC

VARIABLES
    zeekLogs,               \* the catalog (data/zeekLogs), never mutated
    activeNodes,            \* App: Set<string>
    selectedNode,           \* App: string | null
    selectedCategories,     \* App: Set<string>
    searchQuery,            \* App: string
    dimensions,             \* GraphVisualization: {width, height}
    showPivotLabels,        \* GraphVisualization: boolean
    showConnectionStrength, \* GraphVisualization: boolean
    nodes,                  \* node array of the latest completed resolver run
    links,                  \* link array of the latest completed resolver run
    simulation,             \* the d3 simulation owned by the latest effect, or NoSim
    staleSim,               \* a torn-down simulation that a handler can still reach, or NoSim
    svg,                    \* what the <svg> element holds
    drag,                   \* the pointer gesture in progress on a node, or NoDrag
    zoom,                   \* the zoom transform d3-zoom keeps on the <svg> element
    crashed,                \* an exception escaped the effect: React unmounted the tree
    rightPanelView,         \* App: 'fields' | 'pivots' | 'examples'
    selectedPivot,          \* PivotPanel: PivotPoint | null
    selectedExample,        \* CorrelationExamples: number
    copied,                 \* copiedField / copiedQuery of the mounted panel
    copiedBy,               \* history: the click whose copy set the indicator, or 0
    clicks,                 \* history: the clicks on a copy button so far
    clipboard,              \* the writeText promises that are not settled yet
    timers,                 \* the pending timeouts of copyToClipboard, oldest first
    console                 \* the number of console.error lines

vars == << zeekLogs, activeNodes, selectedNode, selectedCategories, searchQuery,
           dimensions, showPivotLabels, showConnectionStrength,
           nodes, links, simulation, staleSim, svg, drag, zoom, crashed,
           rightPanelView, selectedPivot, selectedExample, copied, copiedBy, clicks,
           clipboard, timers, console >>

shellVars == << activeNodes, selectedNode, selectedCategories, searchQuery >>
graphVars == << nodes, links, simulation, staleSim, svg, drag, crashed >>
\* the right panel: the tab of App and the state of the panel it mounts
panelVars == << rightPanelView, selectedPivot, selectedExample, copied, copiedBy, clicks,
                clipboard, timers, console >>

(***************************************************************************)
(* Bounds of the model.                                                    *)
(***************************************************************************)
MaxRelated == 2     \* longest relatedLogs array of a catalog entry
MaxFields == 1      \* most fields of a catalog entry in the field-list catalogs
CoolingTicks == 2   \* ticks a fresh simulation needs to fall below alphaMin
MaxPos == 1         \* positions saturate here (a drag keeps the simulation hot forever)
MaxPan == 1         \* farthest translation of the scene a pan gesture is followed to

null == "null"
NoSim == [kind |-> "none"]
NoDrag == [kind |-> "none"]
\* selectedPivot = null; copiedField = null
NoPivot == [kind |-> "none"]
NotCopied == [kind |-> "none"]

\* the right panel after construction: the Fields tab, nothing copied
PanelInit ==
    /\ rightPanelView = "fields"
    /\ selectedPivot = NoPivot
    /\ selectedExample = 0
    /\ copied = NotCopied
    /\ copiedBy = 0
    /\ clicks = 0
    /\ clipboard = {}
    /\ timers = <<>>
    /\ console = 0

Max(a, b) == IF a >= b THEN a ELSE b
Min(a, b) == IF a <= b THEN a ELSE b

RECURSIVE SeqsUpTo(_, _)
\* all sequences over S of length at most n
SeqsUpTo(S, n) ==
    IF n = 0 THEN {<<>>}
    ELSE LET shorter == SeqsUpTo(S, n - 1)
         IN  shorter \cup {Append(s, x) : s \in shorter, x \in S}

Range(s) == {s[i] : i \in 1..Len(s)}

(***************************************************************************)
(* JavaScript string operations on character sequences.                    *)
(***************************************************************************)
\* String.prototype.includes
includes(s, sub) ==
    \E i \in 0..(Len(s) - Len(sub)) : SubSeq(s, i + 1, i + Len(sub)) = sub

UpperCase == <<"C", "D", "H", "N", "O", "P", "S", "T">>
LowerCase == <<"c", "d", "h", "n", "o", "p", "s", "t">>

\* String.prototype.toLowerCase, on the alphabet of the modelled catalog
toLowerCase(s) ==
    [i \in 1..Len(s) |->
        IF \E k \in 1..Len(UpperCase) : UpperCase[k] = s[i]
        THEN LowerCase[CHOOSE k \in 1..Len(UpperCase) : UpperCase[k] = s[i]]
        ELSE s[i]]

\* the field names the pivot predicates compare against (string literals of the code)
uid == <<"u", "i", "d">>
id_orig_h == <<"i", "d", ".", "o", "r", "i", "g", "_", "h">>
id_resp_h == <<"i", "d", ".", "r", "e", "s", "p", "_", "h">>
hash == <<"h", "a", "s", "h">>
md5 == <<"m", "d", "5">>
sha1 == <<"s", "h", "a", "1">>
sha256 == <<"s", "h", "a", "2", "5", "6">>
query == <<"q", "u", "e", "r", "y">>
host == <<"h", "o", "s", "t">>
server_name == <<"s", "e", "r", "v", "e", "r", "_", "n", "a", "m", "e">>

\* further field names of the bounded catalogs: near misses of the predicates
ts == <<"t", "s">>
fuid == <<"f", "u", "i", "d">>
rx_id_resp_h == <<"r", "x", "_">> \o id_resp_h
file_hash == <<"f", "i", "l", "e", "_">> \o hash
hostname == host \o <<"n", "a", "m", "e">>
orig_h == <<"o", "r", "i", "g", "_", "h">>

FieldNames == { uid, id_orig_h, id_resp_h, hash, md5, sha1, sha256, query, host,
                server_name, ts, fuid, rx_id_resp_h, file_hash, hostname, orig_h }

(***************************************************************************)
(* The catalog.  data/zeekLogs.ts is not among the sources: a catalog is   *)
(* any array of ZeekLogType records, drawn from a bounded family.          *)
(***************************************************************************)
\* ids of the catalog entries, in catalog order
LogIds == <<"conn", "dns", "http">>
\* an id of the default active literal and of relatedLogs arrays that no catalog entry has
AbsentId == "reporter"
AllIds == Range(LogIds) \cup {AbsentId}
CategoryIds == {"Network", "Security"}

LogName(id) ==
    CASE id = "conn" -> <<"c", "o", "n", "n">>
      [] id = "dns"  -> <<"D", "N", "S">>
      [] id = "x509" -> <<"X", "5", "0", "9">>
      [] OTHER       -> <<"H", "T", "T", "P">>

\* the description text of a catalog entry
LogDescription(id) ==
    IF id = "conn" THEN <<"P", "o", "r", "t", "s">> ELSE <<>>

\* a ZeekLogType record
ZeekLogType(id, category, fields, relatedLogs) ==
    [ id |-> id, name |-> LogName(id), category |-> category,
      description |-> LogDescription(id), fields |-> fields,
      relatedLogs |-> relatedLogs ]

FieldChoices == {F \in SUBSET FieldNames : Cardinality(F) <= MaxFields}
RelatedChoices == SeqsUpTo(AllIds, MaxRelated)

\* catalogs that vary the relatedLogs arrays of conn and dns (http lists conn)
RelationCatalogs ==
    { << ZeekLogType("conn", "Network", {ts, uid, id_orig_h}, r1),
         ZeekLogType("dns", "Network", {ts, uid, query}, r2),
         ZeekLogType("http", c3, {ts, host}, <<"conn">>) >> :
        r1 \in RelatedChoices, r2 \in RelatedChoices, c3 \in {"Security"} }

\* catalogs that vary the field lists of two related entries
FieldCatalogs ==
    { << ZeekLogType("conn", "Network", f1, <<"dns">>),
         ZeekLogType("dns", "Network", f2, <<"conn">>),
         ZeekLogType("http", "Security", {ts}, <<>>) >> :
        f1 \in FieldChoices, f2 \in FieldChoices }

\* catalogs of the interactive specification: the scenario of the documentation
\* (conn <-> dns, conn <-> http), with and without a dangling relatedLogs entry
ShellCatalogs ==
    { << ZeekLogType("conn", "Network", {ts, uid, id_orig_h}, <<"dns", "http">> \o d),
         ZeekLogType("dns", "Network", {ts, uid, query}, <<"conn">>),
         ZeekLogType("http", c3, {ts, uid, host}, <<"conn">>) >> :
        d \in {<<>>, <<AbsentId>>}, c3 \in {"Security"} }

CatalogIds(data) == {data[i].id : i \in 1..Len(data)}

\* what Array.prototype.find returns when no element matches
undefined == [undefined |-> TRUE]

\* Array.prototype.find(l => l.id === id)
find(data, id) ==
    IF \E i \in 1..Len(data) : data[i].id = id
    THEN data[CHOOSE i \in 1..Len(data) :
                 data[i].id = id /\ \A j \in 1..(i - 1) : data[j].id # id]
    ELSE undefined

(***************************************************************************)
(* Relationship resolver: the first half of the GraphVisualization effect. *)
(***************************************************************************)
\* data.filter(log => activeNodes.has(log.id))
filteredData(data, active) == SelectSeq(data, LAMBDA log : log.id \in active)

\* the four field predicates of findPivotProperties
hasUidField(log) == \E f \in log.fields : f = uid
hasIpFields(log) == \E f \in log.fields : includes(f, id_orig_h) \/ includes(f, id_resp_h)
hasHashFields(log) == \E f \in log.fields : includes(f, hash) \/ f = md5 \/ f = sha1
hasHostFields(log) == \E f \in log.fields : f = query \/ f = host \/ f = server_name

\* findPivotProperties with the uid test on one endpoint only
findPivotPropertiesOneSided(log1, log2) ==
    IF log1 = undefined \/ log2 = undefined
    THEN [threw |-> TRUE, pivots |-> <<>>]
    ELSE [threw |-> FALSE,
          pivots |-> (IF hasUidField(log1) THEN <<"uid">> ELSE <<>>)
                  \o (IF hasIpFields(log1) /\ hasIpFields(log2) THEN <<"IP">> ELSE <<>>)
                  \o (IF hasHashFields(log1) /\ hasHashFields(log2) THEN <<"hash">> ELSE <<>>)
                  \o (IF hasHostFields(log1) /\ hasHostFields(log2) THEN <<"hostname">> ELSE <<>>)
                  \o <<"ts">>]

\* findPivotProperties: reading .fields of undefined throws a TypeError
findPivotProperties(log1, log2) ==
    IF log1 = undefined \/ log2 = undefined
    THEN [threw |-> TRUE, pivots |-> <<>>]
    ELSE [threw |-> FALSE,
          pivots |-> (IF hasUidField(log1) /\ hasUidField(log2) THEN <<"uid">> ELSE <<>>)
                  \o (IF hasIpFields(log1) /\ hasIpFields(log2) THEN <<"IP">> ELSE <<>>)
                  \o (IF hasHashFields(log1) /\ hasHashFields(log2) THEN <<"hash">> ELSE <<>>)
                  \o (IF hasHostFields(log1) /\ hasHostFields(log2) THEN <<"hostname">> ELSE <<>>)
                  \o <<"ts">>]

\* a connection count that takes every relatedLogs entry, active or not
connectionsUnfiltered(log, active) == Len(log.relatedLogs)

\* log.relatedLogs.filter(relatedId => activeNodes.has(relatedId)).length
connections(log, active) == Len(SelectSeq(log.relatedLogs, LAMBDA relatedId : relatedId \in active))

\* the radius without its floor of 20
radiusNoFloor(k) == 15 + k * 5

\* Math.max(20, 15 + connections * 5)
radius(k) == Max(20, 15 + k * 5)

\* d.fx = null
Unpinned == -1

\* the Node objects; x is the displacement from the position d3 first gives the node
Nodes(fd, active) ==
    [i \in 1..Len(fd) |->
        [ id |-> fd[i].id, category |-> fd[i].category,
          radius |-> radius(connections(fd[i], active)),
          connections |-> connections(fd[i], active),
          x |-> 0, fx |-> Unpinned ]]

\* links.find(link => (source === a && target === b) || (source === b && target === a))
existingLink(acc, a, b) ==
    \E i \in 1..Len(acc) :
        \/ acc[i].source = a /\ acc[i].target = b
        \/ acc[i].source = b /\ acc[i].target = a

\* the condition under which a relatedLogs entry is considered for a link
linkCandidate(log, relatedId, active) == relatedId \in active /\ log.id # relatedId

RECURSIVE relatedLogsForEach(_, _, _, _, _)
\* log.relatedLogs.forEach(relatedId => ...), from entry k on; acc is the state of
\* the links array and whether an exception has escaped
relatedLogsForEach(log, k, acc, fd, active) ==
    IF acc.threw \/ k > Len(log.relatedLogs) THEN acc
    ELSE LET relatedId == log.relatedLogs[k]
             pivotProps == findPivotProperties(find(fd, log.id), find(fd, relatedId))
             next ==
                IF linkCandidate(log, relatedId, active)
                   /\ ~existingLink(acc.links, log.id, relatedId)
                THEN IF pivotProps.threw
                     THEN [threw |-> TRUE, links |-> acc.links]
                     ELSE [threw |-> FALSE,
                           links |-> Append(acc.links,
                              [ source |-> log.id, target |-> relatedId, strength |-> 1,
                                pivotProperties |-> pivotProps.pivots,
                                connectionCount |-> Len(pivotProps.pivots) ])]
                ELSE acc
         IN  relatedLogsForEach(log, k + 1, next, fd, active)

RECURSIVE filteredDataForEach(_, _, _, _)
\* filteredData.forEach(log => ...), from entry i on
filteredDataForEach(fd, i, acc, active) ==
    IF acc.threw \/ i > Len(fd) THEN acc
    ELSE filteredDataForEach(fd, i + 1, relatedLogsForEach(fd[i], 1, acc, fd, active), active)

\* the links array, or the exception that escapes its construction
Links(fd, active) == filteredDataForEach(fd, 1, [threw |-> FALSE, links |-> <<>>], active)

(***************************************************************************)
(* The d3 force simulation, as far as the component drives it.  alpha is   *)
(* counted in cooling steps: a fresh simulation has alpha = CoolingTicks,  *)
(* alphaTarget(0.3) is level 1 and alpha < alphaMin is level 0.            *)
(***************************************************************************)
\* d3.forceSimulation(nodes): created running, alpha 1, alphaTarget 0
forceSimulation ==
    [kind |-> "sim", alpha |-> CoolingTicks, alphaTarget |-> 0,
     running |-> TRUE, tornDown |-> FALSE]

\* simulation.stop()
stop(sim) == [sim EXCEPT !.running = FALSE]

\* simulation.restart(): the timer runs again, alpha is kept
restart(sim) == [sim EXCEPT !.running = TRUE]

\* simulation.alphaTarget(t)
alphaTarget(sim, t) == [sim EXCEPT !.alphaTarget = t]

\* one step of the timer: alpha moves towards alphaTarget, and the timer stops
\* once alpha is below alphaMin
step(sim) ==
    LET a == IF sim.alpha > sim.alphaTarget THEN sim.alpha - 1
             ELSE IF sim.alpha < sim.alphaTarget THEN sim.alpha + 1
             ELSE sim.alpha
    IN  [sim EXCEPT !.alpha = a, !.running = (a >= 1)]

\* node positions after one step: a pinned node sits at fx, a free node moves
stepNodes(ns) ==
    [i \in 1..Len(ns) |->
        [ns[i] EXCEPT !.x = IF ns[i].fx # Unpinned THEN ns[i].fx
                            ELSE Min(ns[i].x + 1, MaxPos)]]

\* a cleanup that leaves the timer running
cleanupNoStop(sim) ==
    IF sim = NoSim THEN NoSim ELSE [sim EXCEPT !.tornDown = TRUE]

\* the cleanup the effect returns: () => { simulation.stop(); }
cleanup(sim) ==
    IF sim = NoSim THEN NoSim ELSE [stop(sim) EXCEPT !.tornDown = TRUE]

(***************************************************************************)
(* Rendering: what the effect appends to the <svg>.                        *)
(***************************************************************************)
\* d3.zoomIdentity; the scale k is counted in quarters, so k4 = 4 is the scale 1
zoomIdentity == [k4 |-> 4, x |-> 0]

\* svg.selectAll('*').remove(); hovered is the circle the pointer has entered,
\* transform the transform attribute of the container group
EmptySvg ==
    [owner |-> "none", circles |-> <<>>, lines |-> <<>>, hovered |-> null,
     transform |-> zoomIdentity]

\* stroke-width of a line, doubled to stay in the integers
strokeWidth2(link, scs) == IF scs THEN Max(4, link.connectionCount * 3) ELSE 4

\* d.pivotProperties.slice(0, 2)
linkLabel(link) == SubSeq(link.pivotProperties, 1, Min(2, Len(link.pivotProperties)))

\* the elements the effect appends; opacities are counted in tenths (an element
\* without an opacity style is drawn at 1)
render(ns, ls, sn, spl, scs) ==
    [ owner |-> "current",
      circles |-> [i \in 1..Len(ns) |->
                      [id |-> ns[i].id, r |-> ns[i].radius, selected |-> (sn = ns[i].id),
                       opacity |-> 10]],
      lines |-> [i \in 1..Len(ls) |->
                      [ source |-> ls[i].source, target |-> ls[i].target,
                        strokeWidth2 |-> strokeWidth2(ls[i], scs),
                        strength |-> scs,
                        label |-> linkLabel(ls[i]),
                        labelOpacity |-> IF spl THEN 1 ELSE 0,
                        opacity |-> 10 ]],
      hovered |-> null,
      transform |-> zoomIdentity ]

\* a guard that tests the height only
unmeasuredHeightOnly(dim) == dim.height = 0

\* the early return of the effect for a viewport that has not been measured
unmeasured(dim) == dim.width = 0 \/ dim.height = 0

\* a torn-down simulation is kept in the model while something can still reach
\* it: the gesture in progress, the circles left in the <svg>, or its own timer
reachable(old, byDrag, byCircles) ==
    old # NoSim /\ (old.running \/ byDrag \/ byCircles)

(***************************************************************************)
(* The second effect of GraphVisualization: cleanup of the previous run,   *)
(* then the body with the new props and state.  It yields the new values   *)
(* of the graph variables.                                                 *)
(***************************************************************************)
GraphEffect(g, an, sn, dim, spl, scs) ==
    LET old == cleanup(g.simulation)
        fd == filteredData(zeekLogs, an)
        built == Links(fd, an)
        kept == unmeasured(dim) /\ Len(g.svg.circles) > 0
        stale ==
            IF reachable(old, g.drag # NoDrag /\ ~g.drag.stale, kept /\ g.svg.owner = "current")
            THEN old
            ELSE IF reachable(g.staleSim, g.drag # NoDrag /\ g.drag.stale,
                              kept /\ g.svg.owner = "stale")
                 THEN g.staleSim
                 ELSE NoSim
        gesture == IF g.drag = NoDrag THEN NoDrag ELSE [g.drag EXCEPT !.stale = TRUE]
    IN  IF unmeasured(dim)
        THEN [ nodes |-> <<>>, links |-> <<>>, simulation |-> NoSim, staleSim |-> stale,
               svg |-> IF Len(g.svg.circles) > 0 THEN [g.svg EXCEPT !.owner = "stale"] ELSE g.svg,
               drag |-> gesture, crashed |-> FALSE ]
        ELSE IF Len(fd) = 0
        THEN [ nodes |-> <<>>, links |-> <<>>, simulation |-> NoSim, staleSim |-> stale,
               svg |-> EmptySvg, drag |-> gesture, crashed |-> FALSE ]
        ELSE IF built.threw
        THEN [ nodes |-> <<>>, links |-> <<>>, simulation |-> NoSim, staleSim |-> NoSim,
               svg |-> EmptySvg, drag |-> NoDrag, crashed |-> TRUE ]
        ELSE [ nodes |-> Nodes(fd, an), links |-> built.links,
               simulation |-> forceSimulation, staleSim |-> stale,
               svg |-> render(Nodes(fd, an), built.links, sn, spl, scs),
               drag |-> gesture, crashed |-> FALSE ]

\* the graph state before a step
Graph ==
    [ nodes |-> nodes, links |-> links, simulation |-> simulation,
      staleSim |-> staleSim, svg |-> svg, drag |-> drag, crashed |-> crashed ]

\* the graph variables take the values of g
Commit(g) ==
    /\ nodes' = g.nodes
    /\ links' = g.links
    /\ simulation' = g.simulation
    /\ staleSim' = g.staleSim
    /\ svg' = g.svg
    /\ drag' = g.drag
    /\ crashed' = g.crashed

(***************************************************************************)
(* Specification of the resolver alone: GraphVisualization is mounted with *)
(* a catalog and an active set drawn from the bounded families, in a       *)
(* measured viewport, and its effect runs.                                 *)
(***************************************************************************)
Measured == [width |-> 800, height |-> 600]

InitResolver ==
    /\ zeekLogs \in RelationCatalogs \cup FieldCatalogs
    /\ activeNodes \in SUBSET AllIds
    /\ selectedNode = null
    /\ selectedCategories = CategoryIds
    /\ searchQuery = <<>>
    /\ dimensions = Measured
    /\ showPivotLabels = FALSE
    /\ showConnectionStrength = FALSE
    /\ nodes = <<>>
    /\ links = <<>>
    /\ simulation = NoSim
    /\ staleSim = NoSim
    /\ svg = EmptySvg
    /\ drag = NoDrag
    /\ zoom = zoomIdentity
    /\ crashed = FALSE
    /\ PanelInit

\* the effect runs for the mounted component
ResolverRun ==
    /\ ~crashed
    /\ svg.owner = "none"
    /\ Commit(GraphEffect(Graph, activeNodes, selectedNode, dimensions,
                          showPivotLabels, showConnectionStrength))
    /\ UNCHANGED << zeekLogs, zoom, panelVars, shellVars, dimensions, showPivotLabels,
                    showConnectionStrength >>

NextResolver == ResolverRun

SpecResolver == InitResolver /\ [][NextResolver]_vars

(***************************************************************************)
(* App: derived values and state updaters.                                 *)
(***************************************************************************)
fieldDescription(f) ==
    IF f = uid THEN <<"S", "e", "s", "s", "i", "o", "n">> ELSE <<>>

\* a search filter that looks at the names of the log types only
filteredLogsNameOnly(data, cats, q) ==
    SelectSeq(data, LAMBDA log :
        /\ log.category \in cats
        /\ \/ q = <<>>
           \/ includes(toLowerCase(log.name), toLowerCase(q)))

\* filteredLogs (useMemo): category filter, then search filter
filteredLogs(data, cats, q) ==
    SelectSeq(data, LAMBDA log :
        /\ log.category \in cats
        /\ \/ q = <<>>
           \/ includes(toLowerCase(log.name), toLowerCase(q))
           \/ includes(toLowerCase(log.description), toLowerCase(q))
           \/ \E f \in log.fields :
                 \/ includes(toLowerCase(f), toLowerCase(q))
                 \/ includes(toLowerCase(fieldDescription(f)), toLowerCase(q)))

\* the cards listed in the sidebar
ListedIds == CatalogIds(filteredLogs(zeekLogs, selectedCategories, searchQuery))

\* toggleNode without the test of the selection
toggleNodeKeepsSelection(prev, sel, nodeId) ==
    IF nodeId \in prev
    THEN [ activeNodes |-> prev \ {nodeId}, selectedNode |-> sel ]
    ELSE [ activeNodes |-> prev \cup {nodeId}, selectedNode |-> sel ]

\* toggleNode: the new active set and the new selection
toggleNode(prev, sel, nodeId) ==
    IF nodeId \in prev
    THEN [ activeNodes |-> prev \ {nodeId},
           selectedNode |-> IF sel = nodeId THEN null ELSE sel ]
    ELSE [ activeNodes |-> prev \cup {nodeId}, selectedNode |-> sel ]

\* zeekLogs.filter(log => log.category === categoryId), as ids
categoryLogs(data, categoryId) ==
    {data[i].id : i \in {j \in 1..Len(data) : data[j].category = categoryId}}

\* a bulk toggle that reaches only one log type of the category
toggleAllInCategoryOneOnly(prev, sel, categoryId, enable) ==
    LET cat == categoryLogs(zeekLogs, categoryId)
        one == IF cat = {} THEN {} ELSE {CHOOSE id \in cat : TRUE}
    IN  IF enable
        THEN [ activeNodes |-> prev \cup one, selectedNode |-> sel ]
        ELSE [ activeNodes |-> prev \ one,
               selectedNode |-> IF sel \in one THEN null ELSE sel ]

\* a bulk disable that flips the membership of every log type of the category
toggleAllInCategoryFlip(prev, sel, categoryId, enable) ==
    LET cat == categoryLogs(zeekLogs, categoryId)
    IN  IF enable
        THEN [ activeNodes |-> prev \cup cat, selectedNode |-> sel ]
        ELSE [ activeNodes |-> (prev \ cat) \cup (cat \ prev),
               selectedNode |-> IF sel \in cat THEN null ELSE sel ]

\* toggleAllInCategory: the new active set and the new selection
toggleAllInCategory(prev, sel, categoryId, enable) ==
    IF enable
    THEN [ activeNodes |-> prev \cup categoryLogs(zeekLogs, categoryId),
           selectedNode |-> sel ]
    ELSE [ activeNodes |-> prev \ categoryLogs(zeekLogs, categoryId),
           selectedNode |-> IF sel \in categoryLogs(zeekLogs, categoryId)
                            THEN null ELSE sel ]

\* toggleCategory
toggleCategory(prev, categoryId) ==
    IF categoryId \in prev THEN prev \ {categoryId} ELSE prev \cup {categoryId}

\* allActive of a category group of the sidebar
allActive(categoryId) ==
    \A id \in ListedIds \cap categoryLogs(zeekLogs, categoryId) : id \in activeNodes

\* the targets the Pivot panel offers as buttons: the ts pivot lists
\* allLogTypes.map(l => l.id).slice(0, 8), every other pivot a subset of the catalog
pivotTargets(data) == {data[i].id : i \in 1..Min(8, Len(data))}

\* selectedLogType
selectedLogType == IF selectedNode = null THEN undefined ELSE find(zeekLogs, selectedNode)

\* the "No Log Types Selected" overlay of GraphVisualization
emptyStateShown == ~crashed /\ Cardinality(activeNodes) = 0

(***************************************************************************)
(* A state update of App or GraphVisualization re-renders the component;   *)
(* the effect runs again when one of its dependencies changed.             *)
(***************************************************************************)
Rerender(g, an, sn, dim, spl, scs, depsChanged) ==
    IF depsChanged THEN Commit(GraphEffect(g, an, sn, dim, spl, scs)) ELSE Commit(g)

\* setSelectedNode(id): a string state, compared by value
SetSelectedNode(g, id) ==
    /\ selectedNode' = id
    /\ Rerender(g, activeNodes, id, dimensions, showPivotLabels,
                showConnectionStrength, id # selectedNode)
    /\ UNCHANGED << zeekLogs, zoom, panelVars, activeNodes, selectedCategories, searchQuery, dimensions,
                    showPivotLabels, showConnectionStrength >>

\* setActiveNodes(prev => newSet): always a new Set object, so the effect runs
SetActiveNodes(r) ==
    /\ activeNodes' = r.activeNodes
    /\ selectedNode' = r.selectedNode
    /\ Rerender(Graph, r.activeNodes, r.selectedNode, dimensions, showPivotLabels,
                showConnectionStrength, TRUE)
    /\ UNCHANGED << zeekLogs, zoom, panelVars, selectedCategories, searchQuery, dimensions,
                    showPivotLabels, showConnectionStrength >>

(***************************************************************************)
(* User actions on the shell.                                              *)
(***************************************************************************)
\* click on a sidebar card: LogTypeCard onSelect
SelectCard(id) ==
    /\ ~crashed
    /\ id \in ListedIds
    /\ SetSelectedNode(Graph, id)

\* click on a target button of the Pivot panel: onLogTypeSelect (which card is
\* open on which tab is the guard of PivotTargetClick)
SelectPivotTarget(id) ==
    /\ ~crashed
    /\ selectedLogType # undefined
    /\ id \in pivotTargets(zeekLogs)
    /\ SetSelectedNode(Graph, id)

\* click on the switch of a sidebar card: LogTypeCard onToggle
ToggleNode(id) ==
    /\ ~crashed
    /\ id \in ListedIds
    /\ SetActiveNodes(toggleNode(activeNodes, selectedNode, id))

\* click on Enable All / Disable All of a category group
ToggleAllInCategory(c) ==
    /\ ~crashed
    /\ ListedIds \cap categoryLogs(zeekLogs, c) # {}
    /\ SetActiveNodes(toggleAllInCategory(activeNodes, selectedNode, c, ~allActive(c)))

\* a category switch that also takes the log types of a category that is
\* switched off out of the active set
ToggleCategoryDeactivating(c) ==
    LET an == IF c \in selectedCategories
              THEN activeNodes \ categoryLogs(zeekLogs, c) ELSE activeNodes
    IN  /\ ~crashed
        /\ selectedCategories' = toggleCategory(selectedCategories, c)
        /\ activeNodes' = an
        /\ Rerender(Graph, an, selectedNode, dimensions, showPivotLabels,
                    showConnectionStrength, TRUE)
        /\ UNCHANGED << zeekLogs, zoom, panelVars, selectedNode, searchQuery, dimensions,
                        showPivotLabels, showConnectionStrength >>

\* click on a category of the CategoryFilter
ToggleCategory(c) ==
    /\ ~crashed
    /\ selectedCategories' = toggleCategory(selectedCategories, c)
    /\ UNCHANGED << zeekLogs, zoom, panelVars, activeNodes, selectedNode, searchQuery, dimensions,
                    showPivotLabels, showConnectionStrength, graphVars >>

Queries == { <<>>, <<"D", "n", "s">> }

\* more texts for the sidebar alone: in upper case, found in a description, in a
\* field name, in a field description, or nowhere
SidebarQueries ==
    Queries \cup { <<"D", "N">>, <<"p", "o", "r", "t">>, <<"H", "O", "S", "T">>,
                   <<"S", "e", "s", "s">>, <<"x", "y", "z">> }

\* typing in (or clearing) the SearchBar
Search(q) ==
    /\ ~crashed
    /\ q # searchQuery
    /\ searchQuery' = q
    /\ UNCHANGED << zeekLogs, zoom, panelVars, activeNodes, selectedNode, selectedCategories, dimensions,
                    showPivotLabels, showConnectionStrength, graphVars >>

(***************************************************************************)
(* GraphVisualization: measurements, overlays, timer and pointer.          *)
(***************************************************************************)
\* getBoundingClientRect() of the <svg>: min-height keeps a laid-out view high
Rects == { [width |-> 0, height |-> 600], Measured }

\* event.x of a drag event
PointerXs == {0, MaxPos}

\* updateDimensions, at mount and on every resize event: a new object each time
UpdateDimensions(rect) ==
    /\ ~crashed
    /\ dimensions' = rect
    /\ Rerender(Graph, activeNodes, selectedNode, rect, showPivotLabels,
                showConnectionStrength, TRUE)
    /\ UNCHANGED << zeekLogs, zoom, panelVars, shellVars, showPivotLabels, showConnectionStrength >>

\* the Pivot Labels button
TogglePivotLabels ==
    /\ ~crashed
    /\ showPivotLabels' = ~showPivotLabels
    /\ Rerender(Graph, activeNodes, selectedNode, dimensions, ~showPivotLabels,
                showConnectionStrength, TRUE)
    /\ UNCHANGED << zeekLogs, zoom, panelVars, shellVars, dimensions, showConnectionStrength >>

\* the Connection Strength button
ToggleConnectionStrength ==
    /\ ~crashed
    /\ showConnectionStrength' = ~showConnectionStrength
    /\ Rerender(Graph, activeNodes, selectedNode, dimensions, showPivotLabels,
                ~showConnectionStrength, TRUE)
    /\ UNCHANGED << zeekLogs, zoom, panelVars, shellVars, dimensions, showPivotLabels >>

\* the simulations whose timer is running
Running ==
    {w \in {"current", "stale"} :
        LET sim == IF w = "current" THEN simulation ELSE staleSim
        IN  sim # NoSim /\ sim.running}

\* one timer step of a running simulation and its tick listener
Tick ==
    /\ \E w \in Running :
          IF w = "current"
          THEN /\ simulation' = step(simulation)
               /\ nodes' = stepNodes(nodes)
               /\ staleSim' = staleSim
          ELSE /\ staleSim' = step(staleSim)
               /\ UNCHANGED << simulation, nodes >>
    /\ UNCHANGED << zeekLogs, zoom, panelVars, shellVars, dimensions, showPivotLabels,
                    showConnectionStrength, links, svg, drag, crashed >>

\* the pointer can land on a circle of a view that has an area
hittable(id) ==
    /\ ~unmeasured(dimensions)
    /\ \E i \in 1..Len(svg.circles) : svg.circles[i].id = id

\* dragstarted, for the only gesture (event.active = 0)
dragstarted(sim) == restart(alphaTarget(sim, 1))

\* a dragended that leaves the target heat raised
dragendedKeepsHeat(sim) == sim

\* dragended, for the only gesture (event.active = 0)
dragended(sim) == alphaTarget(sim, 0)

\* d.fx of the node with this id
pin(ns, id, fx) ==
    [i \in 1..Len(ns) |-> IF ns[i].id = id THEN [ns[i] EXCEPT !.fx = fx] ELSE ns[i]]

xOf(ns, id) == ns[CHOOSE i \in 1..Len(ns) : ns[i].id = id].x

\* mousedown on a circle: d3-drag emits start
NodeMouseDown(id) ==
    /\ ~crashed
    /\ drag = NoDrag
    /\ hittable(id)
    /\ drag' = [kind |-> "drag", node |-> id, moved |-> FALSE,
                stale |-> (svg.owner = "stale")]
    /\ IF svg.owner = "current"
       THEN /\ simulation' = dragstarted(simulation)
            /\ nodes' = pin(nodes, id, xOf(nodes, id))
            /\ staleSim' = staleSim
       ELSE /\ staleSim' = dragstarted(staleSim)
            /\ UNCHANGED << simulation, nodes >>
    /\ UNCHANGED << zeekLogs, zoom, panelVars, shellVars, dimensions, showPivotLabels,
                    showConnectionStrength, links, svg, crashed >>

\* mousemove during the gesture: d3-drag emits drag
NodeMouseMove(px) ==
    /\ ~crashed
    /\ drag # NoDrag
    /\ drag' = [drag EXCEPT !.moved = TRUE]
    /\ nodes' = IF drag.stale THEN nodes ELSE pin(nodes, drag.node, px)
    /\ UNCHANGED << zeekLogs, zoom, panelVars, shellVars, dimensions, showPivotLabels,
                    showConnectionStrength, links, simulation, staleSim, svg, crashed >>

\* the end of a gesture that leaves the node pinned
afterDragEndKeepsPin ==
    IF drag.stale
    THEN [Graph EXCEPT !.drag = NoDrag, !.staleSim = NoSim]
    ELSE [Graph EXCEPT !.drag = NoDrag, !.simulation = dragended(simulation)]

\* the graph state after dragended of the gesture in progress
afterDragEnd ==
    IF drag.stale
    THEN [Graph EXCEPT !.drag = NoDrag,
                       !.staleSim =
                           IF reachable(dragended(staleSim), FALSE, svg.owner = "stale")
                           THEN dragended(staleSim) ELSE NoSim]
    ELSE [Graph EXCEPT !.drag = NoDrag,
                       !.simulation = dragended(simulation),
                       !.nodes = pin(nodes, drag.node, Unpinned)]

\* mouseup: d3-drag emits end; a press without movement on a circle that is
\* still in the <svg> is then delivered as a click to the node's click handler
NodeMouseUp ==
    /\ ~crashed
    /\ drag # NoDrag
    /\ IF ~drag.moved /\ ~drag.stale
       THEN SetSelectedNode(afterDragEnd, drag.node)
       ELSE /\ Commit(afterDragEnd)
            /\ UNCHANGED << zeekLogs, zoom, panelVars, shellVars, dimensions, showPivotLabels,
                            showConnectionStrength >>

(***************************************************************************)
(* GraphVisualization: hover highlight.                                    *)
(***************************************************************************)
\* connectedNodes that follows the links in their direction only
connectedNodesOutgoing(ls, id) ==
    {ls[i].target : i \in {j \in 1..Len(ls) : ls[j].source = id}}

\* connectedNodes of the mouseover handler: link.source and link.target are
\* Node objects once forceLink has initialised the links
connectedNodes(ls, id) ==
    {ls[i].target : i \in {j \in 1..Len(ls) : ls[j].source = id}}
        \cup {ls[i].source : i \in {j \in 1..Len(ls) : ls[j].target = id}}

\* the mouseover handler of the circle of node id
mouseover(view, ls, id, spl) ==
    [view EXCEPT
        !.hovered = id,
        !.circles = [i \in 1..Len(view.circles) |->
            [view.circles[i] EXCEPT
                !.r = IF view.circles[i].id = id THEN (@ * 12) \div 10 ELSE @,
                !.opacity = IF view.circles[i].id = id
                               \/ view.circles[i].id \in connectedNodes(ls, id)
                            THEN 10 ELSE 3]],
        !.lines = [i \in 1..Len(view.lines) |->
            [view.lines[i] EXCEPT
                !.opacity = IF view.lines[i].source = id \/ view.lines[i].target = id
                            THEN 10 ELSE 1,
                !.labelOpacity = IF (view.lines[i].source = id \/ view.lines[i].target = id)
                                    /\ spl
                                 THEN 1 ELSE 0]]]

\* the mouseout handler of the circle of node id
mouseout(view, ns, id, spl) ==
    [view EXCEPT
        !.hovered = null,
        !.circles = [i \in 1..Len(view.circles) |->
            [view.circles[i] EXCEPT
                !.r = IF view.circles[i].id = id THEN ns[i].radius ELSE @,
                !.opacity = 10]],
        !.lines = [i \in 1..Len(view.lines) |->
            [view.lines[i] EXCEPT !.opacity = 6,
                                  !.labelOpacity = IF spl THEN 1 ELSE 0]]]

\* a hover that also reports the node as selected
NodeMouseOverSelecting(id) ==
    /\ ~crashed
    /\ hittable(id)
    /\ svg.hovered = null
    /\ selectedNode' = id
    /\ svg' = mouseover(svg, links, id, showPivotLabels)
    /\ UNCHANGED << zeekLogs, zoom, panelVars, activeNodes, selectedCategories, searchQuery,
                    dimensions, showPivotLabels, showConnectionStrength, nodes, links,
                    simulation, staleSim, drag, crashed >>

\* the pointer enters the circle of a node
NodeMouseOver(id) ==
    /\ ~crashed
    /\ hittable(id)
    /\ svg.hovered = null
    /\ svg' = mouseover(svg, links, id, showPivotLabels)
    /\ UNCHANGED << zeekLogs, zoom, panelVars, shellVars, dimensions, showPivotLabels,
                    showConnectionStrength, nodes, links, simulation, staleSim, drag,
                    crashed >>

\* the pointer leaves the circle it had entered
NodeMouseOut ==
    /\ ~crashed
    /\ svg.hovered # null
    /\ hittable(svg.hovered)
    /\ svg' = mouseout(svg, nodes, svg.hovered, showPivotLabels)
    /\ UNCHANGED << zeekLogs, zoom, panelVars, shellVars, dimensions, showPivotLabels,
                    showConnectionStrength, nodes, links, simulation, staleSim, drag,
                    crashed >>

(***************************************************************************)
(* GraphVisualization: the zoom behaviour bound to the <svg>.  Scales are  *)
(* counted in quarters: 4 is the scale 1.                                  *)
(***************************************************************************)
\* .scaleExtent([0.5, 3])
scaleExtent == <<2, 12>>

\* a zoom behaviour without a scale extent
unconstrainedScale(k4) == k4

\* d3-zoom clamps the scale of every transform it produces to the scale extent
constrainScale(k4) == Max(scaleExtent[1], Min(scaleExtent[2], k4))

\* the scales a wheel or pinch gesture asks for: t.k * 2^delta, any positive number
ZoomScales == {1, 3, 4, 12, 16}

\* the horizontal distances a pan gesture moves the scene by
PanSteps == {-1, 1}

\* the pointer is over the scene of a view that has an area
zoomable == ~crashed /\ ~unmeasured(dimensions) /\ svg.owner = "current"

\* the zoom listener: g.attr('transform', event.transform)
Zoomed(transform) ==
    /\ zoom' = transform
    /\ svg' = [svg EXCEPT !.transform = transform]
    /\ UNCHANGED << zeekLogs, panelVars, shellVars, dimensions, showPivotLabels,
                    showConnectionStrength, nodes, links, simulation, staleSim, drag,
                    crashed >>

\* wheel or pinch on the <svg>
ZoomWheel(k4) ==
    /\ zoomable
    /\ constrainScale(k4) # zoom.k4
    /\ Zoomed([zoom EXCEPT !.k4 = constrainScale(k4)])

\* double click on the <svg>: the scale doubles
ZoomDblClick ==
    /\ zoomable
    /\ constrainScale(zoom.k4 * 2) # zoom.k4
    /\ Zoomed([zoom EXCEPT !.k4 = constrainScale(zoom.k4 * 2)])

\* press, move and release on the background of the <svg>
ZoomPan(dx) ==
    /\ zoomable
    /\ zoom.x + dx \in (0 - MaxPan)..MaxPan
    /\ Zoomed([zoom EXCEPT !.x = zoom.x + dx])

(***************************************************************************)
(* The application.                                                        *)
(***************************************************************************)
\* the ids of the literal of useState(new Set([...])) that the model keeps
DefaultActive(data) == { CatalogIds(data), CatalogIds(data) \cup {AbsentId} }

Init ==
    /\ zeekLogs \in ShellCatalogs
    /\ activeNodes \in DefaultActive(zeekLogs)
    /\ selectedNode = "conn"
    /\ selectedCategories = CategoryIds
    /\ searchQuery = <<>>
    /\ dimensions = [width |-> 0, height |-> 0]
    /\ showPivotLabels = FALSE
    /\ showConnectionStrength = FALSE
    /\ nodes = <<>>
    /\ links = <<>>
    /\ simulation = NoSim
    /\ staleSim = NoSim
    /\ svg = EmptySvg
    /\ drag = NoDrag
    /\ zoom = zoomIdentity
    /\ crashed = FALSE
    /\ PanelInit

\* the shell: every action that reads or writes the state of App; a click on a
\* graph node is the press and release of the pointer on its circle
Next ==
    \/ \E id \in AllIds : SelectCard(id)
    \/ \E id \in AllIds : SelectPivotTarget(id)
    \/ \E id \in AllIds : ToggleNode(id)
    \/ \E c \in CategoryIds : ToggleAllInCategory(c)
    \/ \E c \in CategoryIds : ToggleCategory(c)
    \/ \E q \in Queries : Search(q)
    \/ \E rect \in Rects : UpdateDimensions(rect)
    \/ \E id \in AllIds : NodeMouseDown(id)
    \/ NodeMouseUp

Spec == Init /\ [][Next]_vars

\* the graph view: the props GraphVisualization receives change through the
\* sidebar with every card listed, and the view's own timer, pointer and
\* overlay buttons act
NextGraph ==
    \/ \E id \in AllIds : ToggleNode(id)
    \/ \E c \in CategoryIds : ToggleAllInCategory(c)
    \/ \E rect \in Rects : UpdateDimensions(rect)
    \/ TogglePivotLabels
    \/ ToggleConnectionStrength
    \/ Tick
    \/ \E id \in AllIds : NodeMouseDown(id)
    \/ \E px \in PointerXs : NodeMouseMove(px)
    \/ NodeMouseUp

\* the catalog of the scenario, without the dangling entry
InitGraph == Init /\ zeekLogs[1].relatedLogs = <<"dns", "http">>

SpecGraph == InitGraph /\ [][NextGraph]_vars

\* the graph view under the pointer: hover, press and release on the circles,
\* next to the rebuilds and the timer
NextHover ==
    \/ \E id \in AllIds : ToggleNode(id)
    \/ \E rect \in Rects : UpdateDimensions(rect)
    \/ TogglePivotLabels
    \/ Tick
    \/ \E id \in AllIds : NodeMouseOver(id)
    \/ NodeMouseOut
    \/ \E id \in AllIds : NodeMouseDown(id)
    \/ NodeMouseUp

SpecHover == InitGraph /\ [][NextHover]_vars

\* the sidebar: the filters and the cards of the listing
NextSidebar ==
    \/ \E q \in SidebarQueries : Search(q)
    \/ \E c \in CategoryIds : ToggleCategory(c)
    \/ \E id \in AllIds : SelectCard(id)
    \/ \E id \in AllIds : ToggleNode(id)

SpecSidebar == Init /\ [][NextSidebar]_vars

\* the graph view under zoom and pan gestures, next to the rebuilds and the timer
NextZoom ==
    \/ \E id \in AllIds : ToggleNode(id)
    \/ \E rect \in Rects : UpdateDimensions(rect)
    \/ Tick
    \/ \E k4 \in ZoomScales : ZoomWheel(k4)
    \/ ZoomDblClick
    \/ \E dx \in PanSteps : ZoomPan(dx)

SpecZoom == InitGraph /\ [][NextZoom]_vars

(***************************************************************************)
(* Properties of the relationship resolver (SpecResolver).                 *)
(***************************************************************************)
\* the effect has run to its end, or an exception has escaped it
Resolved == crashed \/ svg.owner = "current"

\* the catalog entries of the active set
ActiveLogs == {i \in 1..Len(zeekLogs) : zeekLogs[i].id \in activeNodes}

\* A lists B, for catalog entries a and b
Lists(a, b) == \E k \in 1..Len(zeekLogs[a].relatedLogs) :
                   zeekLogs[a].relatedLogs[k] = zeekLogs[b].id

\* the unordered pairs of distinct active log types one of which lists the other
RelatedPairs ==
    { {zeekLogs[a].id, zeekLogs[b].id} :
        <<a, b>> \in {p \in ActiveLogs \X ActiveLogs :
                        p[1] # p[2] /\ (Lists(p[1], p[2]) \/ Lists(p[2], p[1]))} }

EdgePair(i) == {links[i].source, links[i].target}

\* the edge list has exactly one edge for each related pair and no other edge
EdgesAreRelatedPairs ==
    /\ \A p \in RelatedPairs : Cardinality({i \in 1..Len(links) : EdgePair(i) = p}) = 1
    /\ \A i \in 1..Len(links) : EdgePair(i) \in RelatedPairs

\* C2: for any catalog and any active set, the edge list of the resolver holds
\* exactly one edge for each unordered pair of distinct active log types one of
\* which lists the other, and no other edge
C2_EdgeDedup == Resolved => EdgesAreRelatedPairs

\* the same on the runs of the resolver that end without an exception
EdgeDedupOnCompletedRuns == svg.owner = "current" => EdgesAreRelatedPairs

NodeIds == {nodes[i].id : i \in 1..Len(nodes)}

\* C3: for any active set S the produced nodes are exactly the catalog log types
\* with an id in S, and every produced edge has both endpoints in S
C3_NodeEdgeClosure ==
    Resolved =>
        /\ NodeIds = CatalogIds(zeekLogs) \cap activeNodes
        /\ \A i \in 1..Len(links) : EdgePair(i) \subseteq activeNodes \cap NodeIds

\* the same on the runs of the resolver that end without an exception
ClosureOnCompletedRuns ==
    svg.owner = "current" =>
        /\ NodeIds = CatalogIds(zeekLogs) \cap activeNodes
        /\ \A i \in 1..Len(links) : EdgePair(i) \subseteq activeNodes \cap NodeIds

\* C4: a relatedLogs entry that names an id absent from the catalog is ignored:
\* for every active set the resolver completes without error and produces no
\* edge to the absent id
C4_DanglingIgnored ==
    /\ ~crashed
    /\ \A i \in 1..Len(links) : EdgePair(i) \subseteq CatalogIds(zeekLogs)

\* the field-name predicates of the pivot tags, as the documentation states them
SatisfiesUid(log) == uid \in log.fields
SatisfiesIp(log) == \E f \in log.fields : includes(f, id_orig_h) \/ includes(f, id_resp_h)
SatisfiesHash(log) == \E f \in log.fields : includes(f, hash) \/ f \in {md5, sha1}
SatisfiesHostname(log) == log.fields \cap {query, host, server_name} # {}

Tags(i) == Range(links[i].pivotProperties)
SourceLog(i) == find(zeekLogs, links[i].source)
TargetLog(i) == find(zeekLogs, links[i].target)

\* the tag list of every edge, with ipTag the tag written for the IP pivot
PivotTagsAre(ipTag) ==
    \A i \in 1..Len(links) :
        /\ "ts" \in Tags(i)
        /\ "uid" \in Tags(i) <=> SatisfiesUid(SourceLog(i)) /\ SatisfiesUid(TargetLog(i))
        /\ ipTag \in Tags(i) <=> SatisfiesIp(SourceLog(i)) /\ SatisfiesIp(TargetLog(i))
        /\ "hash" \in Tags(i) <=> SatisfiesHash(SourceLog(i)) /\ SatisfiesHash(TargetLog(i))
        /\ "hostname" \in Tags(i)
               <=> SatisfiesHostname(SourceLog(i)) /\ SatisfiesHostname(TargetLog(i))

\* C6 as stated: every edge carries ts, and each of the tags uid, ip, hash and
\* hostname iff both endpoints satisfy the tag's field-name predicate
C6_PivotTags == PivotTagsAre("ip")

\* C6 as amended: the same, with the IP pivot written as the tag IP
C6_PivotTagsUpperCaseIP ==
    /\ PivotTagsAre("IP")
    /\ \A i \in 1..Len(links) : Tags(i) \subseteq {"uid", "IP", "hash", "hostname", "ts"}

\* an edge both of whose endpoints have an IP field and a hash field, and one
\* whose endpoints share no predicate
C6_Witness ==
    /\ Len(links) = 1
    /\ SatisfiesIp(SourceLog(1)) /\ SatisfiesIp(TargetLog(1))
    /\ ~SatisfiesUid(SourceLog(1))
    /\ Tags(1) = {"IP", "ts"}

\* the number of relatedLogs entries of the catalog entry id that are active
ActiveEntries(id) ==
    LET rel == find(zeekLogs, id).relatedLogs
    IN  Cardinality({k \in 1..Len(rel) : rel[k] \in activeNodes})

\* C7: the radius of every graph node is max(20, 15 + 5k), k the number of the
\* log type's relatedLogs entries in the active set (20, 20, 25 for k = 0, 1, 2)
C7_Radius ==
    \A i \in 1..Len(nodes) :
        LET k == ActiveEntries(nodes[i].id)
        IN  /\ nodes[i].radius = Max(20, 15 + 5 * k)
            /\ k = 0 => nodes[i].radius = 20
            /\ k = 1 => nodes[i].radius = 20
            /\ k = 2 => nodes[i].radius = 25

\* the scenario of the documentation: conn with two active connections has
\* radius 25 next to dns with one and radius 20
C7_Witness ==
    /\ Len(nodes) = 3
    /\ zeekLogs[1].relatedLogs = <<"dns", "http">>
    /\ nodes[1].id = "conn" /\ ActiveEntries("conn") = 2 /\ nodes[1].radius = 25
    /\ nodes[2].id = "dns" /\ ActiveEntries("dns") = 1 /\ nodes[2].radius = 20

(***************************************************************************)
(* Properties of the shell (Spec).                                         *)
(***************************************************************************)
\* C1: after any sequence of user actions selectedNode is null or a member of
\* the active set
C1_SelectedIsActive == selectedNode = null \/ selectedNode \in activeNodes

\* the catalog entry of the selected node belongs to category c
SelectedInCategory(c) ==
    \E i \in 1..Len(zeekLogs) : zeekLogs[i].id = selectedNode /\ zeekLogs[i].category = c

\* C5: toggling the selected log type off clears the selection; disabling all
\* log types of the category of the selected node clears the selection; in every
\* other case toggleNode, toggleAllInCategory and toggleCategory keep it.
\* (A step that changes the active set is a step of toggleNode or of
\* toggleAllInCategory, one that changes the category filter is toggleCategory.)
C5_SelectionCleared ==
    [][ /\ activeNodes' # activeNodes =>
            /\ \A id \in AllIds : ToggleNode(id) =>
                   selectedNode' = IF id \in activeNodes /\ id = selectedNode
                                   THEN null ELSE selectedNode
            /\ \A c \in CategoryIds : ToggleAllInCategory(c) =>
                   selectedNode' = IF allActive(c) /\ SelectedInCategory(c)
                                   THEN null ELSE selectedNode
        /\ selectedCategories' # selectedCategories => selectedNode' = selectedNode
      ]_vars

\* the selection has been cleared by toggling the selected log type off
C5_Witness == selectedNode = null /\ "conn" \notin activeNodes /\ "dns" \in activeNodes

(***************************************************************************)
(* Properties of the graph view (SpecGraph).                               *)
(***************************************************************************)
\* C8: a simulation that a rebuild or an unmount has torn down never runs again,
\* and at most one simulation is running
C8_NoTickAfterTeardown ==
    /\ \A sim \in {simulation, staleSim} : sim # NoSim /\ sim.tornDown => ~sim.running
    /\ Cardinality(Running) <= 1

\* a rebuild during a press on a node: the torn-down simulation, heated by the
\* drag-start handler, is still held by the gesture while its successor runs
C8_Witness ==
    /\ staleSim # NoSim /\ staleSim.tornDown /\ staleSim.alphaTarget = 1
    /\ drag # NoDrag /\ drag.stale
    /\ simulation # NoSim /\ simulation.running

\* C9: toggling an overlay leaves node positions and the running simulation
\* unchanged, and both overlays are off initially
C9_OverlaysRenderOnly ==
    /\ ~showPivotLabels /\ ~showConnectionStrength
    /\ [][ (showPivotLabels' # showPivotLabels
            \/ showConnectionStrength' # showConnectionStrength)
           => nodes' = nodes /\ simulation' = simulation ]_vars

\* C10: whenever the graph of a measured view has zero nodes, no simulation is
\* running and the "No Log Types Selected" empty state is displayed
C10_EmptyState ==
    ~unmeasured(dimensions) /\ Len(nodes) = 0 => Running = {} /\ emptyStateShown

\* the node of the current graph that the gesture in progress holds
Held(id) == drag # NoDrag /\ ~drag.stale /\ drag.node = id

\* the pin of the node id of the current graph
Pin(ns, id) == ns[CHOOSE i \in 1..Len(ns) : ns[i].id = id].fx

\* C11: a click on a graph node (press and release without movement) emits one
\* node-selected event with the node's id, and the gesture that ends as a click
\* has run no drag handling (the node is not pinned, the simulation's target
\* heat is not raised) and no zoom or pan handling
C11_ClickOnly ==
    [][ (drag # NoDrag /\ ~drag.stale /\ ~drag.moved /\ drag' = NoDrag) =>
            /\ selectedNode' = drag.node
            /\ Pin(nodes, drag.node) = Unpinned
            /\ simulation.alphaTarget = 0
            /\ zoom' = zoom
      ]_vars

\* the part of C11 that the click handler and d3-drag's propagation stop keep:
\* the click selects the node and moves no zoom transform
ClickSelectsWithoutZoom ==
    [][ (drag # NoDrag /\ ~drag.stale /\ ~drag.moved /\ drag' = NoDrag) =>
            /\ selectedNode' = drag.node
            /\ zoom' = zoom /\ svg'.transform = zoomIdentity
      ]_vars

\* after the step the graph is the one the resolver builds from the new active
\* set alone: new Node objects at their first positions, a new link array, a new
\* simulation at full heat (none for an empty node list), and every earlier
\* simulation that something still holds is stopped
RebuiltFromScratch ==
    LET fd == filteredData(zeekLogs, activeNodes')
    IN  /\ nodes' = IF Len(fd) = 0 THEN <<>> ELSE Nodes(fd, activeNodes')
        /\ links' = IF Len(fd) = 0 THEN <<>> ELSE Links(fd, activeNodes').links
        /\ simulation' = IF Len(fd) = 0 THEN NoSim ELSE forceSimulation
        /\ staleSim' # NoSim => staleSim'.tornDown /\ ~staleSim'.running

\* the step changes the active set, the viewport dimensions or the selected
\* node, and the viewport is measured after it
RetriggerStep ==
    /\ \/ activeNodes' # activeNodes
       \/ dimensions' # dimensions
       \/ selectedNode' # selectedNode
    /\ ~unmeasured(dimensions')

\* C12: every change of the active set, of the viewport dimensions or of the
\* selected node, with a non-zero viewport, discards the node list, the edge
\* list and the simulation and builds new ones from scratch, the previous
\* simulation being stopped first
C12_FullRebuild == [][ RetriggerStep => RebuiltFromScratch ]_vars

\* the same for the steps whose effect ends without an exception
RebuildOnCompletedRuns == [][ RetriggerStep /\ ~crashed' => RebuiltFromScratch ]_vars

\* C13: a bulk enable or disable of a category reaches the active set in one
\* step, as the whole category added or the whole category removed, and the
\* resolver that runs in that step sees the complete new active set
C13_BulkAtomic ==
    [][ activeNodes' # activeNodes =>
            \A c \in CategoryIds : ToggleAllInCategory(c) =>
                /\ activeNodes' \in { activeNodes \cup categoryLogs(zeekLogs, c),
                                      activeNodes \ categoryLogs(zeekLogs, c) }
                /\ svg'.owner = "current" =>
                       {nodes'[i].id : i \in 1..Len(nodes')}
                           = CatalogIds(zeekLogs) \cap activeNodes'
      ]_vars

\* the two log types of the Network category have been disabled together and
\* the resolver has drawn the one remaining node
C13_Witness ==
    /\ categoryLogs(zeekLogs, "Network") = {"conn", "dns"}
    /\ activeNodes \cap {"conn", "dns"} = {}
    /\ svg.owner = "current"
    /\ NodeIds = {"http"}

\* C14: disabling all log types of a category twice in a row yields the active
\* set of disabling them once: the second call removes nothing
C14_DisableIdempotent ==
    \A c \in CategoryIds :
        LET once == toggleAllInCategory(activeNodes, selectedNode, c, FALSE)
            twice == toggleAllInCategory(once.activeNodes, once.selectedNode, c, FALSE)
        IN  /\ twice.activeNodes = once.activeNodes
            /\ once.activeNodes \ twice.activeNodes = {}
            /\ twice.selectedNode = once.selectedNode

\* the first call removes the two Network log types and clears the selection
\* that was in the category, while an id outside the category stays active
C14_Witness ==
    LET once == toggleAllInCategory(activeNodes, selectedNode, "Network", FALSE)
    IN  /\ activeNodes \ once.activeNodes = {"conn", "dns"}
        /\ selectedNode = "dns" /\ once.selectedNode = null
        /\ "http" \in once.activeNodes

\* a gesture is in progress on a node of the current graph (a gesture whose node
\* a rebuild has discarded holds no node of the current node list)
Dragging == drag # NoDrag /\ ~drag.stale

\* C15: a node is pinned exactly while it is being dragged; drag-start pins it
\* at its current position and raises the target heat of the simulation, each
\* drag-move sets the pin to the pointer position, drag-end removes the pin
C15_PinnedWhileDragged ==
    /\ [](\A i \in 1..Len(nodes) : nodes[i].fx # Unpinned <=> Held(nodes[i].id))
    /\ [][ /\ (drag = NoDrag /\ drag' # NoDrag) =>
                  /\ Pin(nodes', drag'.node) = xOf(nodes, drag'.node)
                  /\ simulation.alphaTarget = 0 /\ simulation'.alphaTarget > 0
           /\ \A px \in PointerXs : (Dragging /\ NodeMouseMove(px)) =>
                  Pin(nodes', drag.node) = px
           /\ (Dragging /\ drag' = NoDrag) =>
                  \A i \in 1..Len(nodes') : nodes'[i].fx = Unpinned
         ]_vars

\* the dragged node follows the pointer to the far position while the other
\* nodes are free and the simulation is heated
C15_Witness ==
    /\ Dragging /\ drag.moved
    /\ Len(nodes) = 3
    /\ Pin(nodes, drag.node) = MaxPos
    /\ Cardinality({i \in 1..Len(nodes) : nodes[i].fx = Unpinned}) = 2
    /\ simulation.alphaTarget = 1

C17_NoSimulationUnmeasured ==
    /\ (dimensions.width = 0 \/ dimensions.height = 0) =>
           simulation = NoSim /\ Running = {}
    /\ (dimensions.width # 0 /\ dimensions.height # 0 /\ ~crashed
           /\ CatalogIds(zeekLogs) \cap activeNodes # {}) =>
           simulation # NoSim

\* a laid-out view has been measured again at width zero: its simulation is
\* gone while the circles it drew are still in the <svg>
C17_Witness ==
    /\ dimensions.width = 0 /\ dimensions.height # 0
    /\ svg.owner = "stale" /\ Len(svg.circles) > 0
    /\ staleSim # NoSim
    /\ simulation = NoSim

(***************************************************************************)
(* Properties of the hover highlight (SpecHover).                          *)
(***************************************************************************)
\* the direct neighbours of node id in the current edge list
Neighbours(id) ==
    {n \in NodeIds : \E i \in 1..Len(links) : EdgePair(i) = {id, n} /\ n # id}

\* the elements drawn at full emphasis
FullNodes == {svg.circles[i].id : i \in {j \in 1..Len(svg.circles) : svg.circles[j].opacity = 10}}
FullEdges == {i \in 1..Len(svg.lines) : svg.lines[i].opacity = 10}

C19_HoverKeepsState ==
    [][ ((\E id \in AllIds : NodeMouseOver(id)) \/ NodeMouseOut) =>
            /\ selectedNode' = selectedNode
            /\ activeNodes' = activeNodes
            /\ simulation' = simulation /\ staleSim' = staleSim
            /\ nodes' = nodes /\ links' = links
      ]_vars

\* a node other than the selected one is hovered over a simulation that has
\* ticked since it was built
C19_Witness ==
    /\ svg.owner = "current" /\ svg.hovered = "http"
    /\ selectedNode = "conn" /\ "http" \in activeNodes
    /\ simulation # NoSim /\ simulation.alpha < CoolingTicks
    /\ \E i \in 1..Len(nodes) : nodes[i].x > 0

(***************************************************************************)
(* Properties of zoom and pan (SpecZoom).                                  *)
(***************************************************************************)
\* C20: after any sequence of zoom and pan gestures the scale factor of the
\* scene lies in [0.5, 3.0] (2 to 12 quarters), and a zoom or pan event changes
\* the transform of the scene and nothing else: no node position, no pin, no
\* simulation state
C20_ZoomClamped ==
    /\ [](zoom.k4 \in 2..12 /\ svg.transform.k4 \in 2..12)
    /\ [][ zoom' # zoom =>
              /\ nodes' = nodes /\ links' = links
              /\ simulation' = simulation
              /\ svg' = [svg EXCEPT !.transform = zoom']
         ]_vars

\* the scene has been zoomed to the upper end of the extent and panned, over
\* nodes that the simulation has moved
C20_Witness ==
    /\ svg.owner = "current" /\ svg.transform = zoom
    /\ zoom.k4 = 12 /\ zoom.x # 0
    /\ \E i \in 1..Len(nodes) : nodes[i].x > 0

(***************************************************************************)
(* Properties of the pivot-label overlay (SpecLabels).                     *)
(***************************************************************************)
\* a catalog whose related entries share more than two pivots: every entry has
\* the uid and an id.orig_h / id.resp_h field, as the logs of a connection do
LabelCatalog ==
    << ZeekLogType("conn", "Network", {ts, uid, id_orig_h}, <<"dns", "http">>),
       ZeekLogType("dns", "Network", {ts, uid, id_resp_h, query}, <<"conn">>),
       ZeekLogType("http", "Security", {ts, uid, id_orig_h, host}, <<"conn", "dns">>) >>

InitLabels ==
    /\ zeekLogs = LabelCatalog
    /\ activeNodes = CatalogIds(zeekLogs)
    /\ selectedNode = "conn"
    /\ selectedCategories = CategoryIds
    /\ searchQuery = <<>>
    /\ dimensions = [width |-> 0, height |-> 0]
    /\ showPivotLabels = FALSE
    /\ showConnectionStrength = FALSE
    /\ nodes = <<>>
    /\ links = <<>>
    /\ simulation = NoSim
    /\ staleSim = NoSim
    /\ svg = EmptySvg
    /\ drag = NoDrag
    /\ zoom = zoomIdentity
    /\ crashed = FALSE
    /\ PanelInit

SpecLabels == InitLabels /\ [][NextHover]_vars

\* C21: with the pivot-label overlay on, the label along each edge lists all the
\* pivot tags of the edge; with the overlay off no label is visible, during a
\* hover too
C21_LabelsListAllTags ==
    svg.owner = "current" =>
        \A i \in 1..Len(svg.lines) :
            IF showPivotLabels
            THEN svg.lines[i].label = links[i].pivotProperties
            ELSE svg.lines[i].labelOpacity = 0

\* what does hold: the label is the first two tags of the edge, and it is
\* visible only with the overlay on
LabelsListFirstTwoTags ==
    svg.owner = "current" =>
        \A i \in 1..Len(svg.lines) :
            /\ Len(svg.lines[i].label) = Min(2, Len(links[i].pivotProperties))
            /\ \A k \in 1..Len(svg.lines[i].label) :
                  svg.lines[i].label[k] = links[i].pivotProperties[k]
            /\ ~showPivotLabels => svg.lines[i].labelOpacity = 0

(***************************************************************************)
(* Properties of the sidebar under a search query (Spec).                  *)
(***************************************************************************)
\* the log types of category c that the sidebar lists in its group
ListedInCategory(c) == ListedIds \cap categoryLogs(zeekLogs, c)

\* C23: the Enable All / Disable All button of a category changes the active
\* status only of the log types listed under the category; a log type of the
\* category that the search query hides keeps its active status and, if it is
\* the selected one, stays selected
C23_BulkActsOnListed ==
    [][ activeNodes' # activeNodes =>
            \A c \in CategoryIds : ToggleAllInCategory(c) =>
                /\ \A id \in AllIds \ ListedInCategory(c) :
                       (id \in activeNodes') <=> (id \in activeNodes)
                /\ selectedNode \notin ListedInCategory(c) => selectedNode' = selectedNode
      ]_vars

\* what does hold: the button acts on every log type of the category in the
\* catalog, listed or hidden, and on no log type of another category
BulkActsOnWholeCategory ==
    [][ activeNodes' # activeNodes =>
            \A c \in CategoryIds : ToggleAllInCategory(c) =>
                /\ \A id \in AllIds \ categoryLogs(zeekLogs, c) :
                       (id \in activeNodes') <=> (id \in activeNodes)
                /\ \A id \in categoryLogs(zeekLogs, c) :
                       (id \in activeNodes') <=> ~allActive(c)
                /\ selectedNode \notin categoryLogs(zeekLogs, c) =>
                       selectedNode' = selectedNode
      ]_vars

(***************************************************************************)
(* Connection count and degree (SpecResolver).                             *)
(***************************************************************************)
\* the number of materialized edges incident to the node id
Degree(id) == Cardinality({i \in 1..Len(links) : id \in EdgePair(i)})

\* C24: for every graph node the connection count that determines its radius
\* equals the number of materialized edges incident to the node, its degree in
\* the deduplicated edge list
C24_ConnectionsAreDegree ==
    \A i \in 1..Len(nodes) :
        /\ nodes[i].connections = Degree(nodes[i].id)
        /\ nodes[i].radius = Max(20, 15 + 5 * Degree(nodes[i].id))

\* the active relatedLogs entries of the log type id are distinct ids of the
\* catalog other than id, and every active log type that lists id is listed by it
DeclaredOnBothSides(id) ==
    LET rel == find(zeekLogs, id).relatedLogs
    IN  /\ \A k, l \in 1..Len(rel) : rel[k] = rel[l] /\ rel[k] \in activeNodes => k = l
        /\ \A k \in 1..Len(rel) :
               rel[k] \in activeNodes => rel[k] # id /\ rel[k] \in CatalogIds(zeekLogs)
        /\ \A a \in ActiveLogs :
               (zeekLogs[a].id # id /\ id \in Range(zeekLogs[a].relatedLogs))
                   => zeekLogs[a].id \in Range(rel)

\* C24, amended: the connection count is the number of the node's own
\* relatedLogs entries in the active set; it is the degree of the node when
\* the relations of the node are declared on both sides, once each
C24_ConnectionsAreOwnActiveEntries ==
    \A i \in 1..Len(nodes) :
        /\ nodes[i].connections = ActiveEntries(nodes[i].id)
        /\ nodes[i].radius = radius(nodes[i].connections)
        /\ DeclaredOnBothSides(nodes[i].id) => nodes[i].connections = Degree(nodes[i].id)

\* conn lists dns only and is listed by http: its count is 1 and its degree 2,
\* while http, whose one relation is declared by itself alone, has count and degree 1
C24_Witness ==
    /\ Len(nodes) = 3
    /\ nodes[1].id = "conn" /\ nodes[1].connections = 1 /\ Degree("conn") = 2
    /\ ~DeclaredOnBothSides("conn")
    /\ nodes[2].id = "dns" /\ nodes[2].connections = 0 /\ Degree("dns") = 1
    /\ nodes[3].id = "http" /\ DeclaredOnBothSides("http")
    /\ nodes[3].connections = 1 /\ Degree("http") = 1

(***************************************************************************)
(* Pan and zoom across rebuilds (SpecZoom).                                *)
(***************************************************************************)
\* C25: a rebuild of the graph preserves the user's pan and zoom: the transform
\* applied to the rendered scene equals the transform the zoom behaviour stores
C25_RebuildKeepsTransform == svg.owner = "current" => svg.transform = zoom

\* what does hold: a step that runs the effect on a measured view keeps the
\* stored transform and draws the new scene without a transform
RebuildResetsScene ==
    [][ ((activeNodes' # activeNodes \/ dimensions' # dimensions)
            /\ ~unmeasured(dimensions') /\ svg'.owner = "current") =>
            /\ zoom' = zoom
            /\ svg'.transform = zoomIdentity
      ]_vars

(***************************************************************************)
(* The sidebar filters and the graph (Spec).                               *)
(***************************************************************************)
\* C27: toggling a category filter or changing the search query changes the
\* sidebar listing only: the active set, the selected node and the node and edge
\* sets of the graph stay as they are, and the graph keeps showing the active
\* log types whatever the filters say
C27_FiltersChangeListingOnly ==
    /\ [][ (selectedCategories' # selectedCategories \/ searchQuery' # searchQuery) =>
              /\ activeNodes' = activeNodes
              /\ selectedNode' = selectedNode
              /\ nodes' = nodes /\ links' = links
              /\ simulation' = simulation /\ svg' = svg
         ]_vars
    /\ [](svg.owner = "current" /\ ~crashed =>
              NodeIds = CatalogIds(zeekLogs) \cap activeNodes)

\* the Security category is switched off and the query hides conn: http and
\* conn are not listed in the sidebar, and both are nodes of the graph
C27_Witness ==
    /\ "Security" \notin selectedCategories
    /\ searchQuery # <<>>
    /\ ListedIds = {"dns"}
    /\ svg.owner = "current"
    /\ {"conn", "http"} \subseteq NodeIds
    /\ {"conn", "http"} \subseteq {svg.circles[i].id : i \in 1..Len(svg.circles)}
    /\ selectedNode = "conn"

(***************************************************************************)
(* PivotPanel: the pivots of the selected log type.                        *)
(***************************************************************************)
certificate == <<"c", "e", "r", "t", "i", "f", "i", "c", "a", "t", "e">>
serial == <<"s", "e", "r", "i", "a", "l">>
name == <<"n", "a", "m", "e">>
version == <<"v", "e", "r", "s", "i", "o", "n">>

\* a PivotPoint record (description and example are texts that nothing reads)
PivotPoint(field, targetLogs, pivotType) ==
    [ field |-> field, targetLogs |-> targetLogs, pivotType |-> pivotType ]

\* pivots.push(...) under a condition
pushIf(cond, pivot) == IF cond THEN << pivot >> ELSE << >>

\* getPivotPoints(log), allLogTypes being the catalog
getPivotPoints(log, allLogTypes) ==
    pushIf(\E f \in log.fields : f = uid,
           PivotPoint("uid",
                      <<"conn", "dns", "http", "ssl", "ssh", "ftp", "smtp", "files", "pe",
                        "dhcp", "ntp", "irc", "ldap", "postgresql", "quic", "rdp">>,
                      "uid"))
    \o pushIf(\E f \in log.fields : includes(f, id_orig_h) \/ includes(f, id_resp_h),
              PivotPoint("id.orig_h / id.resp_h",
                         <<"conn", "dns", "http", "ssl", "ssh", "ftp", "smtp", "dhcp",
                           "ntp", "weird", "notice">>,
                         "ip"))
    \o pushIf(\E f \in log.fields :
                  includes(f, hash) \/ f = md5 \/ f = sha1 \/ f = sha256,
              PivotPoint("File Hashes (md5/sha1/sha256)",
                         <<"files", "pe", "x509", "smb_files">>, "hash"))
    \o pushIf(\E f \in log.fields : includes(f, certificate) \/ f = serial,
              PivotPoint("Certificate Serial/Fingerprint",
                         <<"ssl", "x509", "known_certs">>, "hash"))
    \o pushIf(\E f \in log.fields : f = query \/ f = host \/ f = server_name,
              PivotPoint("Hostname/FQDN",
                         <<"dns", "http", "ssl", "smtp", "known_hosts">>, "identifier"))
    \o pushIf((\E f \in log.fields : f = name \/ f = version) /\ log.id = "software",
              PivotPoint("Software Name/Version",
                         <<"conn", "http", "ssl", "ssh", "ftp", "smtp">>, "identifier"))
    \o << PivotPoint("ts (timestamp)",
                     [i \in 1..Len(allLogTypes) |-> allLogTypes[i].id], "time") >>

(***************************************************************************)
(* The pivots of the graph and of the Pivot panel (SpecResolver).          *)
(***************************************************************************)
\* the Pivot panel of the log type lists the pivot with this field text
PanelLists(log, field) ==
    \E k \in 1..Len(getPivotPoints(log, zeekLogs)) :
        getPivotPoints(log, zeekLogs)[k].field = field

\* the tag of edge i agrees with the pivot of the panels of its two endpoints
Agree(i, tag, field) ==
    tag \in Tags(i) <=> (PanelLists(SourceLog(i), field) /\ PanelLists(TargetLog(i), field))

\* C28: the pivot predicates of the graph agree with those of the Pivot panel: an
\* edge between A and B carries the uid, IP, hash or hostname tag iff the Pivot
\* panel lists the corresponding pivot (uid, IP addresses, file hashes, hostname)
\* for both A and B
C28_GraphAgreesWithPanel ==
    \A i \in 1..Len(links) :
        /\ Agree(i, "uid", "uid")
        /\ Agree(i, "IP", "id.orig_h / id.resp_h")
        /\ Agree(i, "hash", "File Hashes (md5/sha1/sha256)")
        /\ Agree(i, "hostname", "Hostname/FQDN")

\* what does hold: the uid, IP and hostname pivots agree, and the file-hash pivot
\* agrees on the edges neither endpoint of which has a field named sha256
GraphAgreesWithPanelButSha256 ==
    \A i \in 1..Len(links) :
        /\ Agree(i, "uid", "uid")
        /\ Agree(i, "IP", "id.orig_h / id.resp_h")
        /\ Agree(i, "hostname", "Hostname/FQDN")
        /\ (sha256 \notin SourceLog(i).fields /\ sha256 \notin TargetLog(i).fields)
               => Agree(i, "hash", "File Hashes (md5/sha1/sha256)")

(***************************************************************************)
(* The sidebar listing (SpecSidebar).                                      *)
(***************************************************************************)
\* text a occurs in text b
Occurs(a, b) ==
    \E s \in 0..Len(b) : s + Len(a) <= Len(b) /\ \A j \in 1..Len(a) : b[s + j] = a[j]

\* the search query, lower-cased, occurs in the lower-cased name or description
\* of the log type or of one of its fields
QueryMatches(log) ==
    LET q == toLowerCase(searchQuery)
    IN  \/ Occurs(q, toLowerCase(log.name))
        \/ Occurs(q, toLowerCase(log.description))
        \/ \E f \in log.fields :
              Occurs(q, toLowerCase(f)) \/ Occurs(q, toLowerCase(fieldDescription(f)))

\* C30: a log type is listed in the sidebar iff its category is in the enabled
\* category set and, when the search query is non-empty, the lower-cased query is
\* a substring of its lower-cased name, of its description, or of the name or
\* description of at least one of its fields
C30_Listing ==
    \A i \in 1..Len(zeekLogs) :
        zeekLogs[i].id \in ListedIds <=>
            /\ zeekLogs[i].category \in selectedCategories
            /\ searchQuery # <<>> => QueryMatches(zeekLogs[i])

\* the query 'port' occurs in the description of conn alone, and the query is
\* what hides dns, whose category is enabled as that of conn is
C30_Witness ==
    /\ searchQuery = <<"p", "o", "r", "t">>
    /\ "Network" \in selectedCategories
    /\ ListedIds = {"conn"}
    /\ ~Occurs(toLowerCase(searchQuery), toLowerCase(zeekLogs[1].name))
    /\ \A f \in zeekLogs[1].fields : ~Occurs(toLowerCase(searchQuery), toLowerCase(f))

(***************************************************************************)
(* CorrelationExamples: the investigation examples of the selected log     *)
(* type.  A query is the sequence of the pieces of its text.               *)
(***************************************************************************)
\* a CorrelationExample record, with the query of each of its steps
CorrelationExample(title, queries) == [ title |-> title, steps |-> queries ]

\* getCorrelationExamples(log)
getCorrelationExamples(log) ==
    pushIf(log.id = "conn",
        CorrelationExample("Suspicious Connection Investigation",
            << <<"cat conn.log | zeek-cut ts uid id.orig_h id.resp_h id.resp_p | grep \"192.168.1.100\"">>,
               <<"cat http.log | zeek-cut ts uid method host uri | grep \"CTo78A11g7CYbbOHvj\"">>,
               <<"cat files.log | zeek-cut ts uid filename mime_type | grep \"CTo78A11g7CYbbOHvj\"">> >>))
    \o pushIf(log.id = "dns",
        CorrelationExample("DNS Tunneling Detection",
            << <<"cat dns.log | zeek-cut ts uid query qtype_name | grep -E \"\\.(tk|ml|ga)$\"">>,
               <<"cat conn.log | zeek-cut ts uid id.orig_h id.resp_h proto | grep \"CTo78A11g7CYbbOHvj\"">>,
               <<"cat weird.log | zeek-cut ts uid name | grep \"CTo78A11g7CYbbOHvj\"">> >>))
    \o pushIf(log.id = "http",
        CorrelationExample("Web-based Attack Analysis",
            << <<"cat http.log | zeek-cut ts uid method host uri status_code | grep \"exploit\"">>,
               <<"cat conn.log | zeek-cut ts uid id.orig_h id.resp_h service | grep \"CTo78A11g7CYbbOHvj\"">>,
               <<"cat files.log | zeek-cut ts uid filename mime_type md5 | grep \"CTo78A11g7CYbbOHvj\"">>,
               <<"cat pe.log | zeek-cut ts uid machine compile_ts | grep \"CTo78A11g7CYbbOHvj\"">> >>))
    \o pushIf(log.id = "ssl",
        CorrelationExample("Certificate-based Investigation",
            << <<"cat ssl.log | zeek-cut ts uid server_name cert_chain_fuids | grep \"suspicious.com\"">>,
               <<"cat x509.log | zeek-cut ts id certificate.serial certificate.subject | grep \"FHGtsSM8rjVqGNMFxP\"">>,
               <<"cat conn.log | zeek-cut ts uid id.orig_h id.resp_h duration bytes | grep \"CTo78A11g7CYbbOHvj\"">> >>))
    \o pushIf(log.id = "files",
        CorrelationExample("File-based Threat Analysis",
            << <<"cat files.log | zeek-cut ts uid filename mime_type md5 | grep \"malware.exe\"">>,
               <<"cat conn.log | zeek-cut ts uid id.orig_h id.resp_h service | grep \"CTo78A11g7CYbbOHvj\"">>,
               <<"cat http.log | zeek-cut ts uid method host uri | grep \"CTo78A11g7CYbbOHvj\"">>,
               <<"cat pe.log | zeek-cut ts uid machine compile_ts | grep \"CTo78A11g7CYbbOHvj\"">> >>))
    \o << CorrelationExample("Timeline-based Investigation",
            << <<"cat ", log.id, ".log | zeek-cut ts uid | head -1">>,
               <<"cat conn.log | zeek-cut ts uid id.orig_h id.resp_h | awk '$1 >= 1609459200 && $1 <= 1609459260'">>,
               <<"cat dns.log | zeek-cut ts uid query | awk '$1 >= 1609459200 && $1 <= 1609459260'">>,
               <<"cat weird.log | zeek-cut ts uid name | awk '$1 >= 1609459200 && $1 <= 1609459260'">> >>) >>

(***************************************************************************)
(* The right panel: the tabs of App, the cards of the Pivot panel, the     *)
(* example buttons and the copy buttons of the three panels.               *)
(***************************************************************************)
MaxCopies == 2      \* clicks on copy buttons that a behaviour holds

PanelViews == {"fields", "pivots", "examples"}

\* everything outside the right panel
appVars == << zeekLogs, zoom, shellVars, dimensions, showPivotLabels,
              showConnectionStrength, graphVars >>

\* the panel shows its content, not the placeholder of if (!logType)
panelShown == ~crashed /\ selectedLogType # undefined

\* pivotPoints of the Pivot panel; examples of the Correlation Examples panel
pivotPoints == getPivotPoints(selectedLogType, zeekLogs)
examples == getCorrelationExamples(selectedLogType)

\* examples[selectedExample] is an example
exampleDisplayed == selectedExample < Len(examples)

\* a tab button of the right panel: the panel of the old tab is unmounted and
\* the one of the new tab is mounted with its initial state; the promises and
\* timeouts of the unmounted panel set the state of a component that is gone
SetRightPanelView(view) ==
    /\ ~crashed
    /\ view # rightPanelView
    /\ rightPanelView' = view
    /\ selectedPivot' = NoPivot
    /\ selectedExample' = 0
    /\ copied' = NotCopied
    /\ copiedBy' = 0
    /\ clipboard' = {}
    /\ timers' = <<>>
    /\ UNCHANGED << appVars, clicks, console >>

\* isSelected of the card of a pivot
isSelected(pivot) == selectedPivot # NoPivot /\ selectedPivot.field = pivot.field

\* click on the card of the k-th pivot: setSelectedPivot(isSelected ? null : pivot)
SelectPivot(k) ==
    /\ panelShown
    /\ rightPanelView = "pivots"
    /\ k \in 1..Len(pivotPoints)
    /\ selectedPivot' = IF isSelected(pivotPoints[k]) THEN NoPivot ELSE pivotPoints[k]
    /\ UNCHANGED << appVars, rightPanelView, selectedExample, copied, copiedBy, clicks,
                    clipboard, timers, console >>

\* the target buttons of a card: pivot.targetLogs.slice(0, 8), without the ids
\* that allLogTypes.find does not find
targetButtons(pivot) ==
    {pivot.targetLogs[i] : i \in 1..Min(8, Len(pivot.targetLogs))} \cap CatalogIds(zeekLogs)

\* click on a target button of the selected card
PivotTargetClick(id) ==
    /\ panelShown
    /\ rightPanelView = "pivots"
    /\ \E k \in 1..Len(pivotPoints) :
          isSelected(pivotPoints[k]) /\ id \in targetButtons(pivotPoints[k])
    /\ SelectPivotTarget(id)

\* click on the button of the example with this index: setSelectedExample(index)
SelectExample(index) ==
    /\ panelShown
    /\ rightPanelView = "examples"
    /\ index \in 0..(Len(examples) - 1)
    /\ selectedExample' = index
    /\ UNCHANGED << appVars, rightPanelView, selectedPivot, copied, copiedBy, clicks,
                    clipboard, timers, console >>

\* the texts the copy buttons of the mounted panel hand to copyToClipboard:
\* field.name, pivot.field, step.query
CopyTexts ==
    IF ~panelShown THEN {}
    ELSE CASE rightPanelView = "fields" -> selectedLogType.fields
           [] rightPanelView = "pivots" ->
                  {pivotPoints[k].field : k \in 1..Len(pivotPoints)}
           [] OTHER ->
                  IF exampleDisplayed THEN Range(examples[selectedExample + 1].steps)
                  ELSE {}

\* copyToClipboard(text) up to its await: navigator.clipboard.writeText(text)
CopyClick(text) ==
    /\ clicks < MaxCopies
    /\ text \in CopyTexts
    /\ clicks' = clicks + 1
    /\ clipboard' = clipboard \cup {[text |-> text, click |-> clicks + 1]}
    /\ UNCHANGED << appVars, rightPanelView, selectedPivot, selectedExample, copied,
                    copiedBy, timers, console >>

\* a failed write that shows the indicator all the same
ClipboardRejectsUnnoticed(w) ==
    /\ w \in clipboard
    /\ clipboard' = clipboard \ {w}
    /\ copied' = [kind |-> "text", text |-> w.text]
    /\ copiedBy' = w.click
    /\ console' = console + 1
    /\ UNCHANGED << appVars, rightPanelView, selectedPivot, selectedExample, clicks,
                    timers >>

\* the promise is fulfilled: setCopiedField(text); setTimeout(..., 2000)
ClipboardResolves(w) ==
    /\ w \in clipboard
    /\ clipboard' = clipboard \ {w}
    /\ copied' = [kind |-> "text", text |-> w.text]
    /\ copiedBy' = w.click
    /\ timers' = Append(timers, w.click)
    /\ UNCHANGED << appVars, rightPanelView, selectedPivot, selectedExample, clicks,
                    console >>

\* the promise is rejected (or navigator.clipboard is missing): the catch block
ClipboardRejects(w) ==
    /\ w \in clipboard
    /\ clipboard' = clipboard \ {w}
    /\ console' = console + 1
    /\ UNCHANGED << appVars, rightPanelView, selectedPivot, selectedExample, copied,
                    copiedBy, clicks, timers >>

\* the oldest timeout runs, 2000 ms after it was set: setCopiedField(null)
CopiedTimeout ==
    /\ timers # <<>>
    /\ timers' = Tail(timers)
    /\ copied' = NotCopied
    /\ copiedBy' = 0
    /\ UNCHANGED << appVars, rightPanelView, selectedPivot, selectedExample, clicks,
                    clipboard, console >>

\* a catalog with a log type that has the one example every log type has
PanelCatalog ==
    << ZeekLogType("conn", "Network", {ts, uid, id_orig_h}, <<"x509">>),
       ZeekLogType("x509", "Security", {ts, serial, sha1}, <<"conn">>) >>

InitPanel ==
    /\ zeekLogs = PanelCatalog
    /\ activeNodes = CatalogIds(zeekLogs)
    /\ selectedNode = "conn"
    /\ selectedCategories = CategoryIds
    /\ searchQuery = <<>>
    /\ dimensions = [width |-> 0, height |-> 0]
    /\ showPivotLabels = FALSE
    /\ showConnectionStrength = FALSE
    /\ nodes = <<>>
    /\ links = <<>>
    /\ simulation = NoSim
    /\ staleSim = NoSim
    /\ svg = EmptySvg
    /\ drag = NoDrag
    /\ zoom = zoomIdentity
    /\ crashed = FALSE
    /\ PanelInit

\* the right panel, with the sidebar cards that select a log type and switch
\* the selected one off
NextPanel ==
    \/ \E view \in PanelViews : SetRightPanelView(view)
    \/ \E id \in CatalogIds(PanelCatalog) : SelectCard(id)
    \/ \E id \in CatalogIds(PanelCatalog) : ToggleNode(id)
    \/ \E k \in 1..7 : SelectPivot(k)
    \/ \E id \in CatalogIds(PanelCatalog) : PivotTargetClick(id)
    \/ \E index \in 0..1 : SelectExample(index)
    \/ \E text \in CopyTexts : CopyClick(text)
    \/ \E w \in clipboard : ClipboardResolves(w)
    \/ \E w \in clipboard : ClipboardRejects(w)
    \/ CopiedTimeout

SpecPanel == InitPanel /\ [][NextPanel]_vars

(***************************************************************************)
(* Properties of the right panel (SpecPanel).                              *)
(***************************************************************************)
\* C22: when the clipboard write of a copy action (field name, pivot field,
\* example command) fails, the failure is caught: no error propagates, the
\* copied indicator is not set and all other state of the interface is unchanged
C22_CopyFailureCaught ==
    [][ console' # console =>
            /\ crashed' = FALSE
            /\ copied' = copied
            /\ timers' = timers
            /\ UNCHANGED << appVars, rightPanelView, selectedPivot, selectedExample >>
            /\ Cardinality(clipboard') = Cardinality(clipboard) - 1
      ]_vars

\* the one copy of the behaviour, of an example command, has failed: the error
\* is on the console, nothing shows as copied and no timeout is pending
C22_Witness ==
    /\ rightPanelView = "examples"
    /\ clicks = 1 /\ console = 1
    /\ clipboard = {} /\ timers = <<>>
    /\ copied = NotCopied
    /\ ~crashed

\* C26: after any sequence of log-type selections and clicks on example buttons
\* the selected example index is a valid index into the example list of the
\* selected log type, so an example is displayed whenever a log type is selected
C26_ExampleIndexValid ==
    (rightPanelView = "examples" /\ panelShown) => exampleDisplayed

\* the indicator is cleared while the panel stays mounted
IndicatorCleared ==
    copied # NotCopied /\ copied' = NotCopied /\ rightPanelView' = rightPanelView

\* C29: after a successful copy the indicator shows the copied text until 2
\* seconds after that copy, when the timeout of that copy clears it; the timeout
\* of an earlier copy never clears the indicator that a later copy has set
C29_IndicatorLastsTwoSeconds ==
    /\ [][ Len(timers') > Len(timers) =>
              /\ copied' # NotCopied
              /\ copiedBy' = timers'[Len(timers')]
         ]_vars
    /\ [][ IndicatorCleared => (timers # <<>> /\ Head(timers) = copiedBy) ]_vars

\* what does hold: a successful copy shows its text and sets a timeout, and
\* every timeout that runs clears whatever the indicator shows at that moment
IndicatorClearedByOldestTimeout ==
    /\ [][ Len(timers') > Len(timers) =>
              /\ copied' # NotCopied
              /\ copiedBy' = timers'[Len(timers')]
         ]_vars
    /\ [][ IndicatorCleared => (timers # <<>> /\ timers' = Tail(timers)) ]_vars
    /\ [][ (timers # <<>> /\ timers' = Tail(timers)) => copied' = NotCopied ]_vars

====
